---- MODULE Spec2Model ----
(***************************************************************************)
(* A model of Core/TraceLogger.cpp (Mesen): the ring of the last           *)
(* ExecutionLogSize trace entries, the condition gate with its pending     *)
(* instruction, the buffered file output and the window read.              *)
(*                                                                         *)
(* The object's fields are the fields of the record tl.  Every statement   *)
(* of the source is an operator from the record to the record; a handler   *)
(* is the composition of its statements.  Spec runs every handler as one   *)
(* atomic action (one caller).  SpecConc runs the same statements one at   *)
(* a time on two threads, the emulation thread and the control thread,     *)
(* with the lock of the source.                                            *)
(***************************************************************************)
EXTENDS Integers, Sequences, FiniteSets

(***************************************************************************)
(* Bounds of the model.                                                    *)
(***************************************************************************)
\* The capacity of the ring.  TraceLogger.h (not part of the sources at
\* hand) fixes it; the model runs with a small ring.
ExecutionLogSize == 3
\* The number of events a run keeps, in the ring or as the pending one:
\* more than the ring holds where the window is read, fewer where the file
\* is written.
MaxEvents == 4
MaxFileEvents == 2
\* The number of events a run of the two threads records: more than the
\* ring holds where the window is read, fewer where the file is written.
MaxConcEvents == 4
MaxConcFileEvents == 2
\* The number of annotations one file may hold.
MaxNotes == 1

\* The Log calls of a run with the file and the window read.
MaxWindowEvents == 2

\* The size the output buffer must exceed to be written out (AddRow).
FlushThreshold == 32768

\* An empty shared_ptr.  Disassembly handles are the numbers 1, 2, ...
nullptr == 0

\* The lengths the formatter may give a row: the disassembler and the
\* label manager decide it when the row is rendered.  They are chosen
\* around half the threshold, so that two rows reach it, exceed it, or
\* stay below it.
RowLengths == {FlushThreshold \div 2 - 1, FlushThreshold \div 2}

\* MemoryOperationType: the opcode fetch, and one other kind.
OperationTypes == {"ExecOpCode", "Write"}

\* The line counts GetExecutionTrace is called with: below, at and above
\* the capacity, and above capacity + cursor.
LineCounts == 0 .. (2 * ExecutionLogSize + 1)

(***************************************************************************)
(* The expression evaluator (ExpressionEvaluator.h, outside the sources).  *)
(* A condition is compiled to a token list; the empty text is never        *)
(* compiled; "(" stands for a text that does not compile (GetRpnList       *)
(* returns a null pointer, modelled as NoRpn).  The one program of the     *)
(* model tests the value of the operation.                                 *)
(***************************************************************************)
Conditions == {"", "(", "value"}

NoRpn == <<"null">>

GetRpnList(condition) ==
  IF condition = "value" THEN <<"value">> ELSE NoRpn

Evaluate(rpnList, state, operationInfo) ==
  operationInfo.Value # 0

(***************************************************************************)
(* Values.                                                                 *)
(***************************************************************************)
\* TraceLoggerOptions, as far as the handlers read it.
Options == [Condition : Conditions, ShowExtraInfo : BOOLEAN]

\* A DebugState: the CPU and the PPU snapshot of one event.  id numbers
\* the event the snapshot was taken at.
DebugState(n) == [CPU |-> [id |-> n], PPU |-> [id |-> n]]

\* The snapshot fields before anything was stored in them.
NoState == DebugState(nullptr)

OperationInfos == [OperationType : OperationTypes, Value : {0, 1}]

\* std::ofstream: is_open(), fail(), and what was written through it to
\* the file since it was opened.
ClosedFile == [isOpen |-> FALSE, fail |-> FALSE, data |-> <<>>]

\* ofstream::open(name, ios::out | ios::binary).  opens: whether the
\* operating system opens the file.  An open stream cannot be opened
\* again; a failure sets failbit; a success clears the state and
\* truncates the file.
FileOpen(f, opens) ==
  IF f.isOpen THEN [f EXCEPT !.fail = TRUE]
  ELSE IF opens THEN [isOpen |-> TRUE, fail |-> FALSE, data |-> <<>>]
  ELSE [f EXCEPT !.fail = TRUE]

\* operator<<(ofstream, string): nothing is written by a stream in a
\* failed state; a stream that is not open fails.
FileWrite(f, text) ==
  IF f.fail \/ text = <<>> THEN f
  ELSE IF f.isOpen THEN [f EXCEPT !.data = f.data \o text]
  ELSE [f EXCEPT !.fail = TRUE]

\* ofstream::close()
FileClose(f) ==
  IF f.isOpen THEN [f EXCEPT !.isOpen = FALSE] ELSE [f EXCEPT !.fail = TRUE]

\* The length of a text: a row has its own length, plus one for the
\* newline before it; an annotation is short.
RECURSIVE TextSize(_)
TextSize(text) ==
  IF text = <<>> THEN 0
  ELSE (IF Head(text).kind = "row"
          THEN Head(text).len + (IF Head(text).nl THEN 1 ELSE 0)
          ELSE Head(text).len)
       + TextSize(Tail(text))

\* C++'s %: the remainder has the sign of the dividend.
CRem(a, b) == IF a >= 0 THEN a % b ELSE -((-a) % b)

(***************************************************************************)
(* The state.                                                              *)
(***************************************************************************)
VARIABLES
  tl,           \* the TraceLogger object: a record of its fields
  last,         \* history: the call that ended last, what it was given
                \* and what it answered
  written,      \* history: the events stored in the ring, in order
  sessionRows,  \* history: the events rendered for the file since the
                \* last StartLogging
  nEvents,      \* history: the number of Log calls so far
  lock,         \* SimpleLock _lock: the thread that holds it, or "free"
  emu,          \* the emulation thread: its position and its locals
  ui,           \* the control thread: its position and its locals
  paused,       \* Console::Pause() is in force
  status        \* one call of GetStatusFlag: what it is given, where it
                \* is, and the text it appended

vars ==
  <<tl, last, written, sessionRows, nEvents, lock, emu, ui, paused, status>>

Slots == 0 .. (ExecutionLogSize - 1)

\* One line of text: a row of the trace (nl: a newline precedes it), or
\* the bracketed text of LogStatic.
Row(nl, dis, cpu, ppu, len) ==
  [kind |-> "row", nl |-> nl, dis |-> dis, cpu |-> cpu, ppu |-> ppu,
   len |-> len]

Note ==
  [kind |-> "note", nl |-> FALSE, dis |-> nullptr,
   cpu |-> NoState.CPU, ppu |-> NoState.PPU, len |-> 1]

\* What a read outside the arrays may give.
Garbage == nullptr - 1

(***************************************************************************)
(* TraceLogger::TraceLogger.  _firstLine, _options and the arrays of       *)
(* snapshots are not written by the constructor: the flags start with      *)
(* either value, the snapshots as NoState.                                 *)
(***************************************************************************)
Constructed(firstLine, extra) ==
  [instance |-> TRUE,
   crashed |-> FALSE,
   currentPos |-> 0,
   logToFile |-> FALSE,
   firstLine |-> firstLine,
   options |-> [Condition |-> "", ShowExtraInfo |-> extra],
   conditionRpnList |-> <<>>,
   lastState |-> NoState,
   lastDisassemblyInfo |-> nullptr,
   disassemblyCache |-> [i \in Slots |-> nullptr],
   cpuStateCache |-> [i \in Slots |-> NoState.CPU],
   ppuStateCache |-> [i \in Slots |-> NoState.PPU],
   outputBuffer |-> <<>>,
   outputFile |-> ClosedFile,
   executionTrace |-> <<>>]

(***************************************************************************)
(* TraceLogger::SetOptions                                                 *)
(***************************************************************************)
\* _options = options;
AssignOptions(t, options) == [t EXCEPT !.options = options]

\* A SetOptions that keeps the program it had when the text does not compile.
CompileKeepsProgram(t, condition) ==
  LET rpnList == GetRpnList(condition)
  IN  IF condition # "" /\ rpnList = NoRpn
        THEN t
        ELSE [t EXCEPT !.conditionRpnList =
                IF condition # "" THEN rpnList ELSE <<>>]

\* _conditionRpnList.clear(); and the compilation of a non-empty text
CompileCondition(t, condition) ==
  LET rpnList == GetRpnList(condition)
  IN  [t EXCEPT !.conditionRpnList =
         IF condition # "" /\ rpnList # NoRpn THEN rpnList ELSE <<>>]

SetOptions(t, options) ==
  CompileCondition(AssignOptions(t, options), options.Condition)

(***************************************************************************)
(* TraceLogger::StartLogging                                               *)
(***************************************************************************)
OpenOutput(t, opens) ==
  [t EXCEPT !.outputFile = FileOpen(t.outputFile, opens)]

\* A StartLogging that also rewinds the cursor.
SetLogToFileRewinds(t) == [t EXCEPT !.logToFile = TRUE, !.currentPos = 0]

SetLogToFile(t) == [t EXCEPT !.logToFile = TRUE]

SetFirstLine(t) == [t EXCEPT !.firstLine = TRUE]

StartLogging(t, opens) == SetFirstLine(SetLogToFile(OpenOutput(t, opens)))

(***************************************************************************)
(* TraceLogger::StopLogging and the destructor                             *)
(***************************************************************************)
\* if(_outputFile) { if(!_outputBuffer.empty()) ...; _outputFile.close(); }
CloseOutput(t) ==
  IF t.outputFile.fail THEN t
  ELSE [t EXCEPT !.outputFile =
          FileClose(IF t.outputBuffer # <<>>
                      THEN FileWrite(t.outputFile, t.outputBuffer)
                      ELSE t.outputFile)]

ClearLogToFile(t) == [t EXCEPT !.logToFile = FALSE]

StopLogging(t) ==
  IF t.logToFile THEN ClearLogToFile(CloseOutput(t)) ELSE t

Destroy(t) == [StopLogging(t) EXCEPT !.instance = FALSE]

(***************************************************************************)
(* TraceLogger::LogStatic                                                  *)
(***************************************************************************)
LogStaticGuard(t) ==
  t.instance /\ t.logToFile /\ t.options.ShowExtraInfo /\ ~t.firstLine

FlushBuffer(t) ==
  [t EXCEPT !.outputFile = FileWrite(t.outputFile, t.outputBuffer)]

ClearBuffer(t) == [t EXCEPT !.outputBuffer = <<>>]

WriteNote(t) ==
  [t EXCEPT !.outputFile = FileWrite(t.outputFile, <<Note>>)]

LogStatic(t) ==
  IF LogStaticGuard(t) THEN WriteNote(ClearBuffer(FlushBuffer(t))) ELSE t

(***************************************************************************)
(* TraceLogger::GetStatusFlag.  A text is a sequence of characters; ps is  *)
(* a uint8_t.                                                              *)
(***************************************************************************)
StatusFlagFormats == {"Hexadecimal", "Text", "CompactText"}

StatusBytes == 0 .. 255

\* constexpr char activeStatusLetters[8]
activeStatusLetters == <<"N", "V", "B", "-", "D", "I", "Z", "C">>

\* constexpr char inactiveStatusLetters[8]
inactiveStatusLetters == <<"n", "v", "b", "-", "d", "i", "z", "c">>

\* int padding = 6;
StatusPadding == 6

HexDigits ==
  <<"0", "1", "2", "3", "4", "5", "6", "7",
    "8", "9", "A", "B", "C", "D", "E", "F">>

\* HexUtilities::ToHex(uint8_t): two digits.
ToHex(byte) == <<HexDigits[(byte \div 16) + 1], HexDigits[(byte % 16) + 1]>>

\* string(padding, ' ')
Spaces(n) == [k \in 1 .. n |-> " "]

\* The loop over the eight bits, from turn i on: the text and the padding
\* left after it.  i counts from 0 as in the source.
RECURSIVE StatusLoop(_, _, _, _, _)
StatusLoop(output, ps, i, padding, format) ==
  IF i < 8
    THEN IF ps \div 128 = 1
           THEN StatusLoop(Append(output, activeStatusLetters[i + 1]),
                           (ps * 2) % 256, i + 1, padding - 1, format)
           ELSE IF format = "Text"
             THEN StatusLoop(Append(output, inactiveStatusLetters[i + 1]),
                             (ps * 2) % 256, i + 1, padding - 1, format)
             ELSE StatusLoop(output, (ps * 2) % 256, i + 1, padding, format)
    ELSE [output |-> output, padding |-> padding]

GetStatusFlag(output, ps, format) ==
  LET labelled == output \o <<" ", "P", ":">>
  IN  IF format = "Hexadecimal"
        THEN labelled \o ToHex(ps)
        ELSE LET loop == StatusLoop(labelled, ps, 0, StatusPadding, format)
             IN  IF loop.padding > 0
                   THEN loop.output \o Spaces(loop.padding)
                   ELSE loop.output

(***************************************************************************)
(* TraceLogger::GetTraceRow: the formatter appends one row to the text,    *)
(* after a newline unless firstLine.  len is the length of the row.        *)
(***************************************************************************)
GetTraceRow(output, cpuState, ppuState, disassemblyInfo, firstLine, len) ==
  Append(output, Row(~firstLine, disassemblyInfo, cpuState, ppuState, len))

(***************************************************************************)
(* TraceLogger::ConditionMatches.  The answer, the object after the call,  *)
(* and whether the evaluator was called.                                   *)
(***************************************************************************)
\* A ConditionMatches that keeps the snapshot and forgets the handle.
KeepStateOnly(t, state, disassemblyInfo) == [t EXCEPT !.lastState = state]

\* _lastState = state; _lastDisassemblyInfo = disassemblyInfo;
KeepPending(t, state, disassemblyInfo) ==
  [t EXCEPT !.lastState = state, !.lastDisassemblyInfo = disassemblyInfo]

ConditionMatches(t, state, disassemblyInfo, operationInfo) ==
  IF t.conditionRpnList # <<>>
    THEN IF ~Evaluate(t.conditionRpnList, state, operationInfo)
           THEN [ret |-> FALSE, evaluated |-> TRUE,
                 t |-> IF operationInfo.OperationType = "ExecOpCode"
                         THEN KeepPending(t, state, disassemblyInfo)
                         ELSE t]
           ELSE [ret |-> TRUE, evaluated |-> TRUE, t |-> t]
    ELSE [ret |-> TRUE, evaluated |-> FALSE, t |-> t]

(***************************************************************************)
(* TraceLogger::AddRow, statement by statement.                            *)
(***************************************************************************)
StoreDisassembly(t, disassemblyInfo) ==
  [t EXCEPT !.disassemblyCache[t.currentPos] = disassemblyInfo]

StoreCpuState(t, state) ==
  [t EXCEPT !.cpuStateCache[t.currentPos] = state.CPU]

StorePpuState(t, state) ==
  [t EXCEPT !.ppuStateCache[t.currentPos] = state.PPU]

\* A cursor that stops at the last slot instead of wrapping.
NextPosNoWrap(pos) == IF pos + 1 < ExecutionLogSize THEN pos + 1 ELSE pos

NextPos(pos) == (pos + 1) % ExecutionLogSize

AdvancePos(t) == [t EXCEPT !.currentPos = NextPos(t.currentPos)]

\* An AddRow that leaves the pending handle in place.
ResetPendingForgotten(t) == t

ResetPending(t) == [t EXCEPT !.lastDisassemblyInfo = nullptr]

\* What a call of the formatter on an empty handle may do: the process
\* dies, or the call returns with a row of no instruction.
NullOutcomes == {"crash", "row"}

\* if(_outputBuffer.size() > 32768) { _outputFile << ...; clear(); }
FlushIfLarge(t) ==
  IF TextSize(t.outputBuffer) > FlushThreshold
    THEN ClearBuffer(FlushBuffer(t))
    ELSE t

\* The part of AddRow under if(_logToFile).  disassemblyInfo is what the
\* reference parameter holds when the formatter is called.
WriteRow(t, disassemblyInfo, state, len, onNull) ==
  IF ~t.logToFile THEN t
  ELSE IF disassemblyInfo = nullptr /\ onNull = "crash"
    THEN [t EXCEPT !.crashed = TRUE]
  ELSE [FlushIfLarge(
          [t EXCEPT !.outputBuffer =
             GetTraceRow(t.outputBuffer, state.CPU, state.PPU,
                         disassemblyInfo, t.firstLine, len)])
        EXCEPT !.firstLine = FALSE]

\* AddRow takes the handle by reference.  Log passes its own parameter
\* (byMember = FALSE); LogNonExec passes the field _lastDisassemblyInfo
\* (byMember = TRUE), which AddRow itself resets before the formatter runs.
AddRow(t, byMember, disassemblyInfo, state, len, onNull) ==
  LET stored == ResetPending(AdvancePos(StorePpuState(StoreCpuState(
                  StoreDisassembly(t, disassemblyInfo), state), state)))
  IN  WriteRow(stored,
               IF byMember THEN stored.lastDisassemblyInfo
                           ELSE disassemblyInfo,
               state, len, onNull)

(***************************************************************************)
(* TraceLogger::Log and TraceLogger::LogNonExec                            *)
(***************************************************************************)
Log(t, state, disassemblyInfo, operationInfo, len) ==
  IF disassemblyInfo # nullptr
    THEN LET cm == ConditionMatches(t, state, disassemblyInfo, operationInfo)
         IN  IF cm.ret
               THEN AddRow(cm.t, FALSE, disassemblyInfo, state, len,
                           "crash")
               ELSE cm.t
    ELSE t

\* A LogNonExec that gives the pending event one try only.
LogNonExecOnce(t, operationInfo, len, onNull) ==
  IF t.lastDisassemblyInfo # nullptr
    THEN LET cm == ConditionMatches(t, t.lastState, t.lastDisassemblyInfo,
                                    operationInfo)
         IN  IF cm.ret
               THEN AddRow(cm.t, TRUE, cm.t.lastDisassemblyInfo,
                           cm.t.lastState, len, onNull)
               ELSE ResetPending(cm.t)
    ELSE t

LogNonExec(t, operationInfo, len, onNull) ==
  IF t.lastDisassemblyInfo # nullptr
    THEN LET cm == ConditionMatches(t, t.lastState, t.lastDisassemblyInfo,
                                    operationInfo)
         IN  IF cm.ret
               THEN AddRow(cm.t, TRUE, cm.t.lastDisassemblyInfo,
                           cm.t.lastState, len, onNull)
               ELSE cm.t
    ELSE t

(***************************************************************************)
(* TraceLogger::GetExecutionTrace                                          *)
(***************************************************************************)
\* A start position that forgets to add the capacity.
StartPosNoWrap(currentPos, lineCount) == currentPos - lineCount

\* int startPos = _currentPos + ExecutionLogSize - lineCount;
StartPos(currentPos, lineCount) == currentPos + ExecutionLogSize - lineCount

\* int index = (startPos + i) % ExecutionLogSize;
TraceIndex(startPos, i) == CRem(startPos + i, ExecutionLogSize)

\* What reads outside the arrays may give: nothing, or something.
OutsideReads == {"null", "garbage"}

\* The slot at index, as the loop reads it.
ReadSlot(t, index, outside) ==
  IF index \in Slots
    THEN [dis |-> t.disassemblyCache[index],
          cpu |-> t.cpuStateCache[index],
          ppu |-> t.ppuStateCache[index]]
    ELSE [dis |-> IF outside = "null" THEN nullptr ELSE Garbage,
          cpu |-> NoState.CPU, ppu |-> NoState.PPU]

\* The rows of the window are not measured: all have one length.
WindowRowLength == FlushThreshold \div 2

\* One turn of the loop: the text and the firstLine flag after it.
TraceTurn(t, acc, startPos, i, outside) ==
  LET slot == ReadSlot(t, TraceIndex(startPos, i), outside)
  IN  IF slot.dis # nullptr
        THEN [text |-> GetTraceRow(acc.text, slot.cpu, slot.ppu, slot.dis,
                                   acc.firstLine, WindowRowLength),
              firstLine |-> FALSE]
        ELSE acc

RECURSIVE TraceLoop(_, _, _, _, _, _)
TraceLoop(t, acc, startPos, i, lineCount, outside) ==
  IF i < lineCount
    THEN TraceLoop(t, TraceTurn(t, acc, startPos, i, outside),
                   startPos, i + 1, lineCount, outside)
    ELSE acc

\* A GetExecutionTrace that uses _firstLine of the object for its rows.
GetExecutionTraceSharedFlag(t, lineCount, outside) ==
  LET acc == TraceLoop(t, [text |-> <<>>, firstLine |-> t.firstLine],
                       StartPos(t.currentPos, lineCount), 0, lineCount,
                       outside)
  IN  [t EXCEPT !.executionTrace = acc.text, !.firstLine = acc.firstLine]

GetExecutionTrace(t, lineCount, outside) ==
  [t EXCEPT !.executionTrace =
     TraceLoop(t, [text |-> <<>>, firstLine |-> TRUE],
               StartPos(t.currentPos, lineCount), 0, lineCount, outside).text]

(***************************************************************************)
(* The calls, each as one atomic action: the callers take turns.           *)
(***************************************************************************)
\* No call yet.
NoCall ==
  [op |-> "none", prev |-> "none", dis |-> nullptr, exec |-> FALSE,
   ret |-> FALSE, evaluated |-> FALSE, opens |-> FALSE,
   lineCount |-> 0, outside |-> "null"]

Called(op) == [NoCall EXCEPT !.op = op]

\* The lengths to choose from when a call may render a row for the file.
LengthsNow == IF tl.logToFile THEN RowLengths ELSE {WindowRowLength}

\* What an empty handle may lead to, where a call may meet one.
NullOutcomesNow == IF tl.logToFile THEN NullOutcomes ELSE {"crash"}

\* The object exists, the process runs, and no call is under way.
Callable ==
  /\ tl.instance /\ ~tl.crashed
  /\ emu.pc = "idle" /\ ui.pc = "idle"

ThreadsUnchanged == UNCHANGED <<lock, emu, ui, paused, status>>

\* The rows of a text, as the events they show.
RECURSIVE RowIds(_)
RowIds(text) ==
  IF text = <<>> THEN <<>>
  ELSE IF Head(text).kind = "row"
    THEN <<Head(text).cpu.id>> \o RowIds(Tail(text))
    ELSE RowIds(Tail(text))

RECURSIVE Notes(_)
Notes(text) ==
  IF text = <<>> THEN 0
  ELSE (IF Head(text).kind = "note" THEN 1 ELSE 0) + Notes(Tail(text))

\* Whether the call that led from t to u rendered a row for the file.
Rendered(t, u) == t.logToFile /\ ~u.crashed

\* Log(state, disassemblyInfo, operationInfo).  The event gets the next
\* number when its snapshot is kept, in the ring or as the pending one; an
\* event that leaves no trace gets none.
LogCall(maxEvents) ==
  /\ Callable
  /\ nEvents < maxEvents
  /\ \E dis \in {nullptr, nEvents + 1}, len \in LengthsNow,
        operationInfo \in OperationInfos :
       LET state == DebugState(nEvents + 1)
           cm == ConditionMatches(tl, state, dis, operationInfo)
           wrote == dis # nullptr /\ cm.ret
           exec == operationInfo.OperationType = "ExecOpCode"
       IN  /\ tl' = Log(tl, state, dis, operationInfo, len)
           /\ last' = [Called("Log") EXCEPT
                         !.dis = dis, !.exec = exec, !.ret = wrote,
                         !.evaluated = dis # nullptr /\ cm.evaluated]
           /\ written' = IF wrote THEN Append(written, nEvents + 1)
                                  ELSE written
           /\ sessionRows' = IF wrote /\ Rendered(tl, tl')
                               THEN Append(sessionRows, nEvents + 1)
                               ELSE sessionRows
           /\ nEvents' = IF dis # nullptr /\ (wrote \/ exec)
                           THEN nEvents + 1 ELSE nEvents
  /\ ThreadsUnchanged

\* LogNonExec(operationInfo): its callers pass the operations that are
\* not opcode fetches.
DoLogNonExec ==
  /\ Callable
  /\ \E value \in {0, 1}, len \in LengthsNow, onNull \in NullOutcomesNow :
       LET operationInfo == [OperationType |-> "Write", Value |-> value]
           cm == ConditionMatches(tl, tl.lastState, tl.lastDisassemblyInfo,
                                  operationInfo)
           wrote == tl.lastDisassemblyInfo # nullptr /\ cm.ret
       IN  /\ tl' = LogNonExec(tl, operationInfo, len, onNull)
           /\ last' = [Called("LogNonExec") EXCEPT
                         !.dis = tl.lastDisassemblyInfo,
                         !.ret = wrote,
                         !.evaluated =
                            tl.lastDisassemblyInfo # nullptr /\ cm.evaluated]
           /\ written' = IF wrote THEN Append(written, tl.lastState.CPU.id)
                                  ELSE written
           /\ sessionRows' = IF wrote /\ Rendered(tl, tl')
                               THEN Append(sessionRows, tl.lastState.CPU.id)
                               ELSE sessionRows
  /\ UNCHANGED nEvents
  /\ ThreadsUnchanged

SetOptionsCall(optionSet) ==
  /\ Callable
  /\ \E options \in optionSet : tl' = SetOptions(tl, options)
  /\ last' = Called("SetOptions")
  /\ UNCHANGED <<written, sessionRows, nEvents>>
  /\ ThreadsUnchanged

DoStartLogging ==
  /\ Callable
  /\ \E opens \in BOOLEAN :
       /\ tl' = StartLogging(tl, opens)
       /\ last' = [Called("StartLogging") EXCEPT
                     !.prev = IF last.op = "StopLogging"
                                THEN "StopLogging" ELSE "none",
                     !.opens = ~tl'.outputFile.fail]
  /\ sessionRows' = <<>>
  /\ UNCHANGED <<written, nEvents>>
  /\ ThreadsUnchanged

DoStopLogging ==
  /\ Callable
  /\ tl' = StopLogging(tl)
  /\ last' = [Called("StopLogging") EXCEPT !.ret = tl.logToFile]
  /\ UNCHANGED <<written, sessionRows, nEvents>>
  /\ ThreadsUnchanged

\* The destructor.  Nothing but the static LogStatic is called after it.
DoDestroy ==
  /\ Callable
  /\ tl' = Destroy(tl)
  /\ last' = [Called("Destroy") EXCEPT !.ret = tl.logToFile]
  /\ UNCHANGED <<written, sessionRows, nEvents>>
  /\ ThreadsUnchanged

DoLogStatic ==
  /\ ~tl.crashed /\ emu.pc = "idle" /\ ui.pc = "idle"
  /\ LogStaticGuard(tl) => Notes(tl.outputFile.data) < MaxNotes
  /\ tl' = LogStatic(tl)
  /\ last' = [Called("LogStatic") EXCEPT !.ret = LogStaticGuard(tl)]
  /\ UNCHANGED <<written, sessionRows, nEvents>>
  /\ ThreadsUnchanged

DoGetExecutionTrace ==
  /\ Callable
  /\ \E lineCount \in LineCounts, outside \in OutsideReads :
       /\ tl' = GetExecutionTrace(tl, lineCount, outside)
       /\ last' = [Called("GetExecutionTrace") EXCEPT
                     !.lineCount = lineCount, !.outside = outside]
  /\ UNCHANGED <<written, sessionRows, nEvents>>
  /\ ThreadsUnchanged

Idle == [pc |-> "idle"]

\* No call of GetStatusFlag is followed.
NoStatus ==
  [pc |-> "none", ps |-> 0, format |-> "Hexadecimal", output |-> <<>>]

Init ==
  /\ \E firstLine \in BOOLEAN, extra \in BOOLEAN :
       tl = Constructed(firstLine, extra)
  /\ last = NoCall
  /\ written = <<>>
  /\ sessionRows = <<>>
  /\ nEvents = 0
  /\ lock = "free"
  /\ emu = Idle
  /\ ui = Idle
  /\ paused = FALSE
  /\ status = NoStatus

\* The recording and the file: every call but the window read.
DoLog == LogCall(MaxFileEvents)

DoSetOptions == SetOptionsCall([Condition : {"", "value"},
                                ShowExtraInfo : BOOLEAN])

Next ==
  \/ DoLog
  \/ DoLogNonExec
  \/ DoSetOptions
  \/ DoStartLogging
  \/ DoStopLogging
  \/ DoDestroy
  \/ DoLogStatic

Spec == Init /\ [][Next]_vars

\* The recording and the window read, without a file.
DoLogRing == LogCall(MaxEvents)

DoSetCondition == SetOptionsCall([Condition : Conditions,
                                  ShowExtraInfo : {FALSE}])

NextRing ==
  \/ DoLogRing
  \/ DoLogNonExec
  \/ DoSetCondition
  \/ DoGetExecutionTrace

SpecRing == Init /\ [][NextRing]_vars

\* The file and the window read, with an empty condition.
DoLogWindow == LogCall(MaxWindowEvents)

NextWindow ==
  \/ DoLogWindow
  \/ DoStartLogging
  \/ DoStopLogging
  \/ DoGetExecutionTrace

SpecWindow == Init /\ [][NextWindow]_vars

\* The formatter of the status byte alone: GetTraceRow calls it with the
\* status byte of the snapshot and the format of the options.
InitStatus ==
  /\ tl = Constructed(FALSE, FALSE)
  /\ last = NoCall
  /\ written = <<>>
  /\ sessionRows = <<>>
  /\ nEvents = 0
  /\ lock = "free"
  /\ emu = Idle
  /\ ui = Idle
  /\ paused = FALSE
  /\ \E ps \in StatusBytes, format \in StatusFlagFormats :
       status = [pc |-> "call", ps |-> ps, format |-> format,
                 output |-> <<>>]

DoGetStatusFlag ==
  /\ status.pc = "call"
  /\ status' = [status EXCEPT
                  !.pc = "done",
                  !.output = GetStatusFlag(status.output, status.ps,
                                           status.format)]
  /\ UNCHANGED <<tl, last, written, sessionRows, nEvents, lock, emu, ui,
                 paused>>

NextStatus == DoGetStatusFlag

SpecStatus == InitStatus /\ [][NextStatus]_vars

(***************************************************************************)
(* The two threads.  The emulation thread calls Log and LogNonExec; the    *)
(* control thread calls SetOptions, GetExecutionTrace, StartLogging,       *)
(* StopLogging and LogStatic.  A step is one statement of the source.      *)
(* _lock.AcquireSafe() waits until the lock is free; the guard it returns  *)
(* releases the lock where the block ends.                                 *)
(***************************************************************************)
Running == tl.instance /\ ~tl.crashed

\* auto lock = _lock.AcquireSafe(); in Log and in LogNonExec
EmuLockFree == lock = "free"

\* auto lock = _lock.AcquireSafe(); in SetOptions
OptionsLockFree == lock = "free"

\* A GetExecutionTrace that does not wait for the lock.
TraceLockIgnored == TRUE

\* auto lock = _lock.AcquireSafe(); in GetExecutionTrace
TraceLockFree == lock = "free"

HistoryUnchanged == UNCHANGED <<last, sessionRows, status>>

\* Log is entered.  With an empty handle it returns at once.
EmuLogCall(maxEvents) ==
  /\ Running /\ ~paused /\ emu.pc = "idle"
  /\ nEvents < maxEvents
  /\ \E len \in LengthsNow, operationInfo \in OperationInfos :
       emu' = [pc |-> "lock", byMember |-> FALSE,
               state |-> DebugState(nEvents + 1), dis |-> nEvents + 1,
               operationInfo |-> operationInfo, len |-> len,
               onNull |-> "crash"]
  /\ nEvents' = nEvents + 1
  /\ UNCHANGED <<tl, written, lock, ui, paused>>
  /\ HistoryUnchanged

\* LogNonExec is entered: if(_lastDisassemblyInfo), read without the lock.
EmuLogNonExec ==
  /\ Running /\ ~paused /\ emu.pc = "idle"
  /\ tl.lastDisassemblyInfo # nullptr
  /\ \E value \in {0, 1}, len \in RowLengths, onNull \in NullOutcomes :
       emu' = [pc |-> "lock", byMember |-> TRUE,
               state |-> NoState, dis |-> nullptr,
               operationInfo |-> [OperationType |-> "Write", Value |-> value],
               len |-> len, onNull |-> onNull]
  /\ UNCHANGED <<tl, written, nEvents, lock, ui, paused>>
  /\ HistoryUnchanged

\* The handle and the snapshot the references of the call stand for.
EmuDis == IF emu.byMember THEN tl.lastDisassemblyInfo ELSE emu.dis

EmuState == IF emu.byMember THEN tl.lastState ELSE emu.state

EmuAcquire ==
  /\ Running /\ emu.pc = "lock"
  /\ EmuLockFree
  /\ lock' = "emu"
  /\ emu' = [emu EXCEPT !.pc = "condition"]
  /\ UNCHANGED <<tl, written, nEvents, ui, paused>>
  /\ HistoryUnchanged

\* if(ConditionMatches(...)); a call that does not match returns.
EmuCondition ==
  /\ Running /\ emu.pc = "condition"
  /\ LET cm == ConditionMatches(tl, EmuState, EmuDis, emu.operationInfo)
     IN  /\ tl' = cm.t
         /\ IF cm.ret
              THEN emu' = [emu EXCEPT !.pc = "storeDisassembly"]
                   /\ UNCHANGED lock
              ELSE emu' = Idle /\ lock' = "free"
  /\ UNCHANGED <<written, nEvents, ui, paused>>
  /\ HistoryUnchanged

\* The statements of AddRow, one at a time; the last one ends the call.
EmuAddRow ==
  /\ Running
  /\ emu.pc \in {"storeDisassembly", "storeCpuState", "storePpuState",
                 "advancePos", "resetPending", "writeRow"}
  /\ tl' = CASE emu.pc = "storeDisassembly" -> StoreDisassembly(tl, EmuDis)
             [] emu.pc = "storeCpuState" -> StoreCpuState(tl, EmuState)
             [] emu.pc = "storePpuState" -> StorePpuState(tl, EmuState)
             [] emu.pc = "advancePos" -> AdvancePos(tl)
             [] emu.pc = "resetPending" -> ResetPending(tl)
             [] emu.pc = "writeRow" ->
                  WriteRow(tl, EmuDis, EmuState, emu.len, emu.onNull)
  /\ emu' = CASE emu.pc = "storeDisassembly" ->
                  [emu EXCEPT !.pc = "storeCpuState"]
              [] emu.pc = "storeCpuState" ->
                  [emu EXCEPT !.pc = "storePpuState"]
              [] emu.pc = "storePpuState" -> [emu EXCEPT !.pc = "advancePos"]
              [] emu.pc = "advancePos" -> [emu EXCEPT !.pc = "resetPending"]
              [] emu.pc = "resetPending" -> [emu EXCEPT !.pc = "writeRow"]
              [] emu.pc = "writeRow" -> Idle
  /\ lock' = IF emu.pc = "writeRow" THEN "free" ELSE lock
  /\ written' = IF emu.pc = "advancePos"
                  THEN Append(written, tl.cpuStateCache[tl.currentPos].id)
                  ELSE written
  /\ UNCHANGED <<nEvents, ui, paused>>
  /\ HistoryUnchanged

\* SetOptions: _options = options; string condition = _options.Condition;
UiSetOptions ==
  /\ Running /\ ui.pc = "idle"
  /\ \E options \in [Condition : {"", "value"}, ShowExtraInfo : {TRUE}] :
       /\ tl' = AssignOptions(tl, options)
       /\ ui' = [pc |-> "optionsLock", condition |-> options.Condition]
  /\ UNCHANGED <<written, nEvents, lock, emu, paused>>
  /\ HistoryUnchanged

UiOptionsAcquire ==
  /\ Running /\ ui.pc = "optionsLock"
  /\ OptionsLockFree
  /\ lock' = "ui"
  /\ ui' = [ui EXCEPT !.pc = "compile"]
  /\ UNCHANGED <<tl, written, nEvents, emu, paused>>
  /\ HistoryUnchanged

UiCompile ==
  /\ Running /\ ui.pc = "compile"
  /\ tl' = CompileCondition(tl, ui.condition)
  /\ lock' = "free"
  /\ ui' = Idle
  /\ UNCHANGED <<written, nEvents, emu, paused>>
  /\ HistoryUnchanged

\* GetExecutionTrace: _executionTrace.clear();
UiTrace ==
  /\ Running /\ ui.pc = "idle"
  /\ \E lineCount \in {1, ExecutionLogSize} :
       ui' = [pc |-> "traceLock", lineCount |-> lineCount]
  /\ tl' = [tl EXCEPT !.executionTrace = <<>>]
  /\ UNCHANGED <<written, nEvents, lock, emu, paused>>
  /\ HistoryUnchanged

\* The lock is taken and startPos is computed.
UiTraceAcquire ==
  /\ Running /\ ui.pc = "traceLock"
  /\ TraceLockFree
  /\ lock' = "ui"
  /\ ui' = [pc |-> "traceLoop", lineCount |-> ui.lineCount,
            startPos |-> StartPos(tl.currentPos, ui.lineCount), i |-> 0,
            firstLine |-> TRUE]
  /\ UNCHANGED <<tl, written, nEvents, emu, paused>>
  /\ HistoryUnchanged

\* One turn of the loop, or its end and the return.
UiTraceLoop ==
  /\ Running /\ ui.pc = "traceLoop"
  /\ IF ui.i < ui.lineCount
       THEN LET acc == TraceTurn(tl, [text |-> tl.executionTrace,
                                      firstLine |-> ui.firstLine],
                                 ui.startPos, ui.i, "null")
            IN  /\ tl' = [tl EXCEPT !.executionTrace = acc.text]
                /\ ui' = [ui EXCEPT !.i = ui.i + 1,
                                    !.firstLine = acc.firstLine]
                /\ UNCHANGED lock
       ELSE /\ ui' = Idle
            /\ lock' = "free"
            /\ UNCHANGED tl
  /\ UNCHANGED <<written, nEvents, emu, paused>>
  /\ HistoryUnchanged

\* StartLogging, statement by statement.  It takes no lock.
UiStartLogging ==
  /\ Running
  /\ \/ /\ ui.pc = "idle"
        /\ \E opens \in BOOLEAN : tl' = OpenOutput(tl, opens)
        /\ ui' = [pc |-> "setLogToFile"]
     \/ /\ ui.pc = "setLogToFile"
        /\ tl' = SetLogToFile(tl)
        /\ ui' = [pc |-> "setFirstLine"]
     \/ /\ ui.pc = "setFirstLine"
        /\ tl' = SetFirstLine(tl)
        /\ ui' = Idle
  /\ UNCHANGED <<written, nEvents, lock, emu, paused>>
  /\ HistoryUnchanged

\* StopLogging, statement by statement.  It takes no lock.  Console::Pause
\* returns when the emulation thread has stopped between two instructions;
\* the thread runs again after Console::Resume.
UiStopLogging ==
  /\ Running
  /\ \/ /\ ui.pc = "idle" /\ tl.logToFile
        /\ ui' = [pc |-> "pause"]
        /\ UNCHANGED <<tl, paused>>
     \/ /\ ui.pc = "pause" /\ emu.pc = "idle"
        /\ paused' = TRUE
        /\ ui' = [pc |-> "closeOutput"]
        /\ UNCHANGED tl
     \/ /\ ui.pc = "closeOutput"
        /\ tl' = CloseOutput(tl)
        /\ ui' = [pc |-> "resume"]
        /\ UNCHANGED paused
     \/ /\ ui.pc = "resume"
        /\ paused' = FALSE
        /\ ui' = [pc |-> "clearLogToFile"]
        /\ UNCHANGED tl
     \/ /\ ui.pc = "clearLogToFile"
        /\ tl' = ClearLogToFile(tl)
        /\ ui' = Idle
        /\ UNCHANGED paused
  /\ UNCHANGED <<written, nEvents, lock, emu>>
  /\ HistoryUnchanged

\* LogStatic, statement by statement.  It takes no lock.
UiLogStatic ==
  /\ Running
  /\ \/ /\ ui.pc = "idle" /\ LogStaticGuard(tl)
        /\ Notes(tl.outputFile.data) < MaxNotes
        /\ tl' = FlushBuffer(tl)
        /\ ui' = [pc |-> "clearBuffer"]
     \/ /\ ui.pc = "clearBuffer"
        /\ tl' = ClearBuffer(tl)
        /\ ui' = [pc |-> "writeNote"]
     \/ /\ ui.pc = "writeNote"
        /\ tl' = WriteNote(tl)
        /\ ui' = Idle
  /\ UNCHANGED <<written, nEvents, lock, emu, paused>>
  /\ HistoryUnchanged

\* The two threads on the ring: recording, reconfiguration and the
\* window read.
EmuLog == EmuLogCall(MaxConcEvents)

NextConc ==
  \/ EmuLog
  \/ EmuLogNonExec
  \/ EmuAcquire
  \/ EmuCondition
  \/ EmuAddRow
  \/ UiSetOptions
  \/ UiOptionsAcquire
  \/ UiCompile
  \/ UiTrace
  \/ UiTraceAcquire
  \/ UiTraceLoop

SpecConc == Init /\ [][NextConc]_vars

\* The two threads on the file: recording, reconfiguration and the
\* session calls.
EmuLogFile == EmuLogCall(MaxConcFileEvents)

NextConcFile ==
  \/ EmuLogFile
  \/ EmuLogNonExec
  \/ EmuAcquire
  \/ EmuCondition
  \/ EmuAddRow
  \/ UiSetOptions
  \/ UiOptionsAcquire
  \/ UiCompile
  \/ UiStartLogging
  \/ UiStopLogging
  \/ UiLogStatic

SpecConcFile == Init /\ [][NextConcFile]_vars

(***************************************************************************)
(* The claims.                                                             *)
(***************************************************************************)
Range(seq) == {seq[k] : k \in 1 .. Len(seq)}

LastN(seq, n) == SubSeq(seq, Len(seq) - n + 1, Len(seq))

NoRepeat(seq) == \A j, k \in 1 .. Len(seq) : seq[j] = seq[k] => j = k

IsSuffix(tail, seq) ==
  /\ Len(tail) <= Len(seq)
  /\ LastN(seq, Len(tail)) = tail

\* The three parts of a row come from the same event.
SameEvent(row) == row.dis = row.cpu.id /\ row.dis = row.ppu.id

\* The ring after the event with this handle and snapshot was stored at
\* the cursor of t.
StoredAtCursor(t, u, dis, state) ==
  /\ u.disassemblyCache = [t.disassemblyCache EXCEPT ![t.currentPos] = dis]
  /\ u.cpuStateCache = [t.cpuStateCache EXCEPT ![t.currentPos] = state.CPU]
  /\ u.ppuStateCache = [t.ppuStateCache EXCEPT ![t.currentPos] = state.PPU]
  /\ u.currentPos = (t.currentPos + 1) % ExecutionLogSize
  /\ u.currentPos \in Slots

RingUnchanged(t, u) ==
  /\ u.disassemblyCache = t.disassemblyCache
  /\ u.cpuStateCache = t.cpuStateCache
  /\ u.ppuStateCache = t.ppuStateCache
  /\ u.currentPos = t.currentPos

\* C1: once more events were stored than the ring holds,
\* GetExecutionTrace(ExecutionLogSize) returns the rows of the last
\* ExecutionLogSize stored events, each once, the oldest first, and every
\* row shows the handle and the snapshots of one event.
C1_FullWindow ==
  (/\ last.op = "GetExecutionTrace"
   /\ last.lineCount = ExecutionLogSize
   /\ Len(written) > ExecutionLogSize)
  => /\ RowIds(tl.executionTrace) = LastN(written, ExecutionLogSize)
     /\ NoRepeat(RowIds(tl.executionTrace))
     /\ \A k \in 1 .. Len(tl.executionTrace) :
          SameEvent(tl.executionTrace[k])

C1_Witness ==
  /\ last.op = "GetExecutionTrace"
  /\ last.lineCount = ExecutionLogSize
  /\ Len(written) > ExecutionLogSize
  /\ Len(tl.executionTrace) = ExecutionLogSize

\* C2: a LogNonExec that matches stores the pending event, and no other,
\* once: the slot at the cursor gets the handle and the snapshots kept when
\* the opcode fetch failed the condition, the event was not stored before,
\* and the pending handle is empty afterwards; a LogNonExec without a
\* pending handle changes nothing.
C2_PendingOnce ==
  [][/\ (last'.op = "LogNonExec" /\ last'.ret)
          => /\ tl.lastDisassemblyInfo # nullptr
             /\ tl.lastDisassemblyInfo = tl.lastState.CPU.id
             /\ tl.lastDisassemblyInfo = tl.lastState.PPU.id
             /\ StoredAtCursor(tl, tl', tl.lastDisassemblyInfo, tl.lastState)
             /\ tl.lastState.CPU.id \notin Range(written)
             /\ written' = Append(written, tl.lastState.CPU.id)
             /\ tl'.lastDisassemblyInfo = nullptr
     /\ (last'.op = "LogNonExec" /\ tl.lastDisassemblyInfo = nullptr)
          => /\ tl' = tl
             /\ written' = written
     /\ NoRepeat(written')
    ]_vars

C2_Witness ==
  /\ last.op = "LogNonExec"
  /\ last.ret
  /\ tl.lastDisassemblyInfo = nullptr
  /\ written # <<>>

\* C3: with an empty condition program, a Log with a handle stores its
\* event in the slot at the cursor and moves the cursor by one modulo the
\* capacity; the evaluator is not called and the pending slot is not set.
C3_EmptyCondition ==
  [][(last'.op = "Log" /\ last'.dis # nullptr /\ tl.conditionRpnList = <<>>)
       => /\ StoredAtCursor(tl, tl', last'.dis, DebugState(last'.dis))
          /\ written' = Append(written, last'.dis)
          /\ ~last'.evaluated
          /\ tl'.lastDisassemblyInfo = nullptr
          /\ tl'.lastState = tl.lastState
    ]_vars

\* The cursor is back at slot 0 after a Log under an empty condition.
C3_Witness ==
  /\ last.op = "Log"
  /\ last.dis # nullptr
  /\ last.ret
  /\ ~last.evaluated
  /\ tl.conditionRpnList = <<>>
  /\ tl.currentPos = 0
  /\ Len(written) >= ExecutionLogSize

\* C4: with Log and LogNonExec on the emulation thread and
\* GetExecutionTrace on the control thread, every row of the window shows
\* the handle and the snapshots one write stored, and while the window is
\* read the emulation thread is outside its critical section and the
\* cursor is the one the start position was computed from.
C4_ConsistentRead ==
  /\ \A k \in 1 .. Len(tl.executionTrace) : SameEvent(tl.executionTrace[k])
  /\ ui.pc = "traceLoop"
       => /\ emu.pc \in {"idle", "lock"}
          /\ ui.startPos = StartPos(tl.currentPos, ui.lineCount)

\* The reader is inside the window of a full ring, and a Log whose row
\* would overwrite a slot of that window waits for the lock.
C4_Witness ==
  /\ ui.pc = "traceLoop"
  /\ ui.i >= 1
  /\ tl.executionTrace # <<>>
  /\ emu.pc = "lock"
  /\ Len(written) >= ExecutionLogSize

\* C5: SetOptions replaces the options and the condition program as one:
\* whenever the emulation thread holds the lock the program is the one
\* compiled from the options, and the options are never written while the
\* emulation thread holds the lock.
C5_AtomicReplace ==
  [][/\ lock' = "emu" => tl'.conditionRpnList =
                          CompileCondition(tl', tl'.options.Condition)
                            .conditionRpnList
     /\ tl'.options # tl.options => lock # "emu"
    ]_vars

\* C6: StartLogging right after StopLogging starts a new file with an
\* empty _outputBuffer and _firstLine set, whatever the earlier session
\* left in the buffer.
C6_FreshSession ==
  last.op = "StartLogging" /\ last.prev = "StopLogging"
    => tl.outputBuffer = <<>> /\ tl.firstLine

\* C7: LogStatic leaves the object alone unless a file is logged to,
\* ShowExtraInfo is set and a row was rendered since StartLogging; in that
\* case the file gains the whole _outputBuffer and then the bracketed text,
\* and the buffer is left empty.
C7_Annotate ==
  [][last'.op = "LogStatic"
       => IF LogStaticGuard(tl)
            THEN /\ tl'.outputFile.data =
                      tl.outputFile.data \o tl.outputBuffer \o <<Note>>
                 /\ tl'.outputBuffer = <<>>
            ELSE tl' = tl
    ]_vars

\* C8: for every lineCount GetExecutionTrace reads only slots of the ring
\* and returns the rows of the populated slots, each once, the oldest
\* first.
C8_AnyLineCount ==
  last.op = "GetExecutionTrace"
  => /\ \A i \in 0 .. (last.lineCount - 1) :
          TraceIndex(StartPos(tl.currentPos, last.lineCount), i) \in Slots
     /\ NoRepeat(RowIds(tl.executionTrace))
     /\ IsSuffix(RowIds(tl.executionTrace), written)
     /\ last.lineCount >= ExecutionLogSize
          => Len(tl.executionTrace) >= Len(written)
             \/ Len(tl.executionTrace) = ExecutionLogSize

\* C9: a StartLogging whose file does not open leaves _logToFile clear, and
\* leaves the ring as it was.
C9_FailedOpen ==
  [][last'.op = "StartLogging" /\ ~last'.opens /\ ~tl.logToFile
       => ~tl'.logToFile /\ RingUnchanged(tl, tl')
    ]_vars

\* C10: StopLogging, and the destructor, called while _logToFile is set
\* write what is left of _outputBuffer to the file, close the file and
\* clear _logToFile, so that the file ends with the rows rendered since
\* StartLogging, in their order; called while _logToFile is clear they
\* change nothing.
C10_StopDrains ==
  [][last'.op \in {"StopLogging", "Destroy"}
       => IF tl.logToFile
            THEN /\ ~tl'.logToFile
                 /\ ~tl'.outputFile.isOpen
                 /\ tl'.outputFile.data = tl.outputFile.data \o tl.outputBuffer
                 /\ IsSuffix(sessionRows, RowIds(tl'.outputFile.data))
            ELSE [tl' EXCEPT !.instance = tl.instance] = tl
    ]_vars

\* The text is not empty and GetRpnList gives no program for it.
Uncompilable(condition) == condition # "" /\ GetRpnList(condition) = NoRpn

\* C11: after SetOptions with a condition that is not empty and does not
\* compile, the condition program is empty, whatever it was before, and
\* every later Log with a handle is stored without a call of the evaluator.
C11_UncompilableCondition ==
  [][/\ (last'.op = "SetOptions" /\ Uncompilable(tl'.options.Condition))
          => tl'.conditionRpnList = <<>>
     /\ (last'.op = "Log" /\ last'.dis # nullptr
           /\ Uncompilable(tl.options.Condition))
          => /\ last'.ret
             /\ ~last'.evaluated
             /\ StoredAtCursor(tl, tl', last'.dis, DebugState(last'.dis))
             /\ written' = Append(written, last'.dis)
    ]_vars

\* An event failed the condition compiled earlier, a text that does not
\* compile was then set, and the Log after it was stored.
C11_Witness ==
  /\ Uncompilable(tl.options.Condition)
  /\ last.op = "Log"
  /\ last.ret
  /\ Len(written) < nEvents

\* Bit i of the status byte, counted from the most significant one.
StatusBit(ps, i) == (ps \div (2 ^ (8 - i))) % 2 = 1

\* The letters of the set bits, in the order N,V,B,-,D,I,Z,C.
SetLetters(ps) ==
  LET set == SelectSeq([i \in 1 .. 8 |-> i], LAMBDA i : StatusBit(ps, i))
  IN  [k \in 1 .. Len(set) |-> activeStatusLetters[set[k]]]

\* The text after the label " P:".
StatusField(output) == SubSeq(output, 4, Len(output))

\* C12: in the abbreviated format, for every status byte the field after
\* " P:" is the capital letters of the set bits in the order
\* N,V,B,-,D,I,Z,C and then spaces, and it is StatusPadding characters
\* wide however many bits are set.
C12_AbbreviatedWidth ==
  status.pc = "done" /\ status.format = "CompactText"
    => /\ Len(StatusField(status.output)) = StatusPadding
       /\ \E n \in 0 .. StatusPadding :
            StatusField(status.output) = SetLetters(status.ps) \o Spaces(n)

\* C13: a Log whose condition evaluates to false leaves the ring, the
\* cursor, _outputBuffer, the file and _firstLine as they were; after an
\* opcode fetch the pending handle and snapshot are those of the call,
\* after any other operation they are unchanged too.
C13_FailedMatch ==
  [][(last'.op = "Log" /\ last'.evaluated /\ ~last'.ret)
       => /\ written' = written
          /\ tl' = IF last'.exec
                     THEN [tl EXCEPT
                             !.lastState = DebugState(last'.dis),
                             !.lastDisassemblyInfo = last'.dis]
                     ELSE tl
    ]_vars

\* An opcode fetch failed the condition during a session with a row in the
\* buffer, and is the pending event.
C13_Witness ==
  /\ last.op = "Log"
  /\ last.evaluated
  /\ ~last.ret
  /\ last.exec
  /\ tl.logToFile
  /\ tl.outputBuffer # <<>>
  /\ tl.lastDisassemblyInfo = last.dis
  /\ tl.lastDisassemblyInfo # nullptr

\* C14: a LogNonExec that stores nothing, because no event is pending or
\* because the pending event fails the condition again, changes nothing:
\* the pending handle and snapshot, the ring and the file are as before,
\* so that every later LogNonExec evaluates the same pending event again.
C14_PendingRetried ==
  [][/\ (last'.op = "LogNonExec" /\ ~last'.ret)
          => tl' = tl /\ written' = written /\ sessionRows' = sessionRows
     /\ (last'.op = "LogNonExec" /\ tl.lastDisassemblyInfo # nullptr
           /\ tl.conditionRpnList # <<>>)
          => last'.evaluated /\ last'.dis = tl.lastDisassemblyInfo
    ]_vars

\* The pending event has failed the condition a second time, during a
\* session, and is still pending.
C14_Witness ==
  /\ last.op = "LogNonExec"
  /\ last.evaluated
  /\ ~last.ret
  /\ tl.lastDisassemblyInfo # nullptr
  /\ tl.lastDisassemblyInfo = last.dis
  /\ tl.logToFile

\* _outputBuffer, _outputFile, _logToFile and _firstLine.
FileFields(t) == <<t.outputBuffer, t.outputFile, t.logToFile, t.firstLine>>

\* A Log or a LogNonExec has the lock, or a LogNonExec is between its test
\* of the pending handle and the lock.
EmuInside ==
  /\ emu.pc # "idle"
  /\ emu.pc = "lock" => emu.byMember

\* C15: the buffer, the file, _logToFile and _firstLine are accessed under
\* the lock only, so that no statement of StartLogging, StopLogging or
\* LogStatic on the control thread writes them while a Log or a LogNonExec
\* of the emulation thread has the lock or is about to take it.
C15_NoOverlap ==
  [][(ui' # ui /\ FileFields(tl') # FileFields(tl)) => ~EmuInside]_vars

\* The buffer after the row of the event with this handle was appended to
\* the buffer of t: the row may have any of the lengths.
WithRow(t, dis) ==
  {Append(t.outputBuffer,
          Row(~t.firstLine, dis, DebugState(dis).CPU, DebugState(dis).PPU,
              len)) : len \in RowLengths}

\* C16: while _logToFile is set, every Log and LogNonExec that stores an
\* event appends one row of that event to _outputBuffer; when the buffer is
\* then longer than FlushThreshold the whole of it goes to the file and
\* the buffer is emptied, otherwise the file is left alone; so the buffer
\* is never longer than FlushThreshold when the call returns.
C16_ThresholdFlush ==
  [][(last'.op \in {"Log", "LogNonExec"} /\ last'.ret /\ tl.logToFile)
       => /\ \E appended \in WithRow(tl, last'.dis) :
               IF TextSize(appended) > FlushThreshold
                 THEN /\ tl'.outputBuffer = <<>>
                      /\ tl'.outputFile.data = tl.outputFile.data \o appended
                 ELSE /\ tl'.outputBuffer = appended
                      /\ tl'.outputFile = tl.outputFile
          /\ TextSize(tl'.outputBuffer) <= FlushThreshold
    ]_vars

\* The ring, the cursor and the pending event.
RingPart(t) ==
  <<t.disassemblyCache, t.cpuStateCache, t.ppuStateCache, t.currentPos,
    t.lastState, t.lastDisassemblyInfo>>

\* The same logger had StartLogging never been called.
Sessionless(t) ==
  [t EXCEPT !.logToFile = FALSE, !.firstLine = TRUE, !.outputBuffer = <<>>,
            !.outputFile = ClosedFile]

\* C17: the ring records whatever the session: a Log or a LogNonExec leaves
\* the ring, the cursor and the pending event as the same call with the
\* same arguments leaves them on a logger without a session, and
\* StartLogging and StopLogging change none of them.
C17_RingIgnoresSession ==
  [][/\ last'.op \in {"StartLogging", "StopLogging"}
          => RingPart(tl') = RingPart(tl)
     /\ last'.op = "Log"
          => \A operationInfo \in OperationInfos, len \in RowLengths :
               tl' = Log(tl, DebugState(nEvents + 1), last'.dis,
                         operationInfo, len)
                 => RingPart(tl') =
                      RingPart(Log(Sessionless(tl), DebugState(nEvents + 1),
                                   last'.dis, operationInfo, len))
     /\ last'.op = "LogNonExec"
          => \A operationInfo \in OperationInfos, len \in RowLengths,
                onNull \in NullOutcomes :
               tl' = LogNonExec(tl, operationInfo, len, onNull)
                 => RingPart(tl') =
                      RingPart(LogNonExec(Sessionless(tl), operationInfo,
                                          len, onNull))
    ]_vars

\* During a session the pending event was stored, after another event had
\* been stored, and the rows are in the buffer.
C17_Witness ==
  /\ last.op = "LogNonExec"
  /\ last.ret
  /\ tl.logToFile
  /\ ~tl.crashed
  /\ Len(written) >= 2
  /\ tl.outputBuffer # <<>>

\* The row the call that led from t to u appended for the file, where it
\* can be seen: the last row of the buffer or, after a flush, of the file.
\* A row flushed to a stream that takes nothing is seen nowhere.
LastRendered(t, u) ==
  IF u.outputBuffer # <<>>
    THEN {u.outputBuffer[Len(u.outputBuffer)]}
    ELSE IF Len(u.outputFile.data) > Len(t.outputFile.data)
      THEN {u.outputFile.data[Len(u.outputFile.data)]}
      ELSE {}

\* C18: the file and the window each have their own firstLine.  The first
\* row rendered for the file after StartLogging has no newline before it
\* and every later row has one; in every result of GetExecutionTrace the
\* first row has none and every later row has one; and GetExecutionTrace
\* leaves _firstLine, _outputBuffer and the file as they were.
C18_FirstLinePerTarget ==
  [][/\ tl'.logToFile => (tl'.firstLine <=> sessionRows' = <<>>)
     /\ (last'.op = "Log" /\ last'.ret /\ tl.logToFile)
          => \A row \in LastRendered(tl, tl') : row.nl = (sessionRows # <<>>)
     /\ \A k \in 1 .. Len(tl'.executionTrace) :
          tl'.executionTrace[k].nl = (k > 1)
     /\ last'.op = "GetExecutionTrace"
          => FileFields(tl') = FileFields(tl)
    ]_vars

\* A window of two rows was read during a session that has rendered two
\* rows.
C18_Witness ==
  /\ last.op = "GetExecutionTrace"
  /\ Len(tl.executionTrace) >= 2
  /\ tl.logToFile
  /\ ~tl.firstLine
  /\ Len(sessionRows) >= 2
  /\ Len(tl.outputBuffer) >= 2

\* C19: a LogNonExec that stores the pending event while _logToFile is set
\* appends the row of that event: the formatter gets the handle and the
\* snapshot that were just stored in the ring, never an empty handle.
C19_PendingRowRendered ==
  [][(last'.op = "LogNonExec" /\ last'.ret /\ tl.logToFile)
       => /\ ~tl'.crashed
          /\ \A row \in LastRendered(tl, tl') :
               /\ row.dis # nullptr
               /\ row.dis = tl'.disassemblyCache[tl.currentPos]
               /\ row.cpu = tl'.cpuStateCache[tl.currentPos]
    ]_vars

\* C20: after every Log of an opcode fetch, also one with an empty handle
\* and one after SetOptions, the pending handle is empty or the pending
\* handle and snapshot are those of that call, so that LogNonExec never
\* stores an earlier instruction.
C20_PendingIsLatest ==
  [][(last'.op = "Log" /\ last'.exec)
       => \/ tl'.lastDisassemblyInfo = nullptr
          \/ /\ tl'.lastDisassemblyInfo = last'.dis
             /\ tl'.lastState = DebugState(nEvents + 1)
    ]_vars

====
